---- MODULE Spec2Model ----
(***************************************************************************)
(* Model of src/New_2/batch_consulta.py: the batch CNPJ lookup handler,    *)
(* its worker tasks (process_one_cnpj / request_cnpj_with_retry), the      *)
(* shared AdaptiveLimiter, the in-process cache and the autosave CSV.      *)
(*                                                                         *)
(* Encoding.  A text is a sequence of one-character strings.  Times are    *)
(* integers in milliseconds (1.0 s = 1000).  A CSV row is a record of the  *)
(* columns of CSV_COLS that depend on the identifier, the flags, the       *)
(* regime history, the error message and the clock; the remaining columns  *)
(* (UF, Municipio, Endereco, CNAE, IBGE code) are copied from the response *)
(* or "N/A" and are left out.                                              *)
(*                                                                         *)
(* Time.  The clock moves when a sleep ends: to the time the sleep was set *)
(* for, or not at all when the clock is already past it.  A request, a     *)
(* cache_get and a cache_set are single steps (each cache call holds       *)
(* _CACHE_LOCK for the one dictionary access).                             *)
(***************************************************************************)
EXTENDS Integers, Sequences, FiniteSets, TLC

(***************************************************************************)
(* Program constants                                                       *)
(***************************************************************************)
MAX_WORKERS == 3
START_INTERVAL == 1000
MIN_INTERVAL_FLOOR == 750
MIN_INTERVAL_CEIL == 5000
ADAPT_SUCC_WINDOW == 18
ADAPT_FAIL_BACKOFF == 2
TOTAL_RETRIES == 3
REQ_TIMEOUT == 20000
MAX_INPUTS == 1000
AUTOSAVE_BLOCK == 10
JITTER_MAX == 600
BACKOFF_BASE_MIN == 1000
RETRYABLE_STATUS == {429, 500, 502, 503, 504}

(***************************************************************************)
(* Bounds of the model                                                     *)
(***************************************************************************)
\* time.time() when the handler starts, in ms (far beyond 0.0 + ceiling)
Epoch == 10000
\* the calendar year datetime.now() reports
CurrentYear == 2025
\* number of button clicks (runs of the handler) on the same input
MaxRuns == 2
\* longest token list drawn for the job-fingerprint comparison
MaxJobLen == 2

(***************************************************************************)
(* Helpers on sequences                                                    *)
(***************************************************************************)
Max(a, b) == IF a >= b THEN a ELSE b
Min(a, b) == IF a <= b THEN a ELSE b
Range(s) == {s[i] : i \in DOMAIN s}

Digits == {"0", "1", "2", "3", "4", "5", "6", "7", "8", "9"}

\* str(n) for 0 <= n <= 9 is DigitChars[n + 1]
DigitChars == <<"0", "1", "2", "3", "4", "5", "6", "7", "8", "9">>

\* str(n) for 0 <= n <= 9
DigitChr(n) == DigitChars[n + 1]

\* int(c) for a digit character
DigitVals == [c \in Digits |-> (CHOOSE n \in 0..9 : DigitChars[n + 1] = c)]

DigitVal(c) == DigitVals[c]

IsDigit(c) == c \in Digits

\* re.sub(r'[^0-9]', '', cnpj or "")
limpar_cnpj(cnpj) == SelectSeq(cnpj, IsDigit)

pesos_12 == <<5, 4, 3, 2, 9, 8, 7, 6, 5, 4, 3, 2>>
pesos_13 == <<6, 5, 4, 3, 2, 9, 8, 7, 6, 5, 4, 3, 2>>

\* sum(int(base[i]) * pesos[i] for i in range(n)); sum[k] is the sum of the
\* first k terms
WeightedSum(base, pesos, n) ==
  LET sum[k \in 0..n] == IF k = 0 THEN 0 ELSE sum[k - 1] + DigitVal(base[k]) * pesos[k]
  IN  sum[n]

\* the inner dv(base, pesos)
dv(base, pesos) ==
  LET r == WeightedSum(base, pesos, Len(base)) % 11
  IN  IF r < 2 THEN "0" ELSE DigitChr(11 - r)

\* the two check digits of a 12-digit base
calcular_digitos_verificadores_cnpj(base12) ==
  LET d14(d13) == dv(Append(base12, d13), pesos_13)
  IN  \* d13 is bound to its value, then d14 is computed from it
      CHOOSE dvs \in {<<d13, d14(d13)>> : d13 \in {dv(base12, pesos_12)}} : TRUE

\* variant: an identifier of one repeated digit is judged by its check digits
cnpj_is_valid_AllowsRepeated(cnpj14) ==
  \E c \in {cnpj14} :
    IF Len(c) # 14 THEN FALSE
    ELSE \E b \in {SubSeq(c, 1, 12)} :
           SubSeq(c, 13, 14) = calcular_digitos_verificadores_cnpj(b)

\* c is the identifier and b its first twelve digits
cnpj_is_valid(cnpj14) ==
  \E c \in {cnpj14} :
    IF Len(c) # 14 \/ Cardinality(Range(c)) = 1
    THEN FALSE
    ELSE \E b \in {SubSeq(c, 1, 12)} :
           SubSeq(c, 13, 14) = calcular_digitos_verificadores_cnpj(b)

\* variant: the check digits are recomputed for a headquarters identifier too
to_matriz_if_filial_Always(cnpj_clean) ==
  IF Len(cnpj_clean) # 14 THEN cnpj_clean
  ELSE LET base12 == SubSeq(cnpj_clean, 1, 8) \o <<"0", "0", "0", "1">>
       IN  base12 \o calcular_digitos_verificadores_cnpj(base12)

to_matriz_if_filial(cnpj_clean) ==
  IF Len(cnpj_clean) # 14 THEN cnpj_clean
  ELSE IF SubSeq(cnpj_clean, 9, 12) # <<"0", "0", "0", "1">>
       THEN LET base12 == SubSeq(cnpj_clean, 1, 8) \o <<"0", "0", "0", "1">>
            IN  base12 \o calcular_digitos_verificadores_cnpj(base12)
       ELSE cnpj_clean


(***************************************************************************)
(* Response mapping                                                        *)
(***************************************************************************)
NA == <<"N", "/", "A">>

RECURSIVE IntStr(_)
\* str(n) for n >= 0
IntStr(n) ==
  IF n < 10 THEN <<DigitChr(n)>> ELSE Append(IntStr(n \div 10), DigitChr(n % 10))

\* r.get('ano') is None
AnoNone == 0 - 1

\* variant: the entry of the greatest year, inside the window or not
get_regime_tributario_LatestOnly(regimes_list, current_year) ==
  LET items == regimes_list.items
      dated == {i \in DOMAIN items : items[i].ano # AnoNone}
      latest == CHOOSE i \in dated : \A j \in dated : items[j].ano <= items[i].ano
  IN  IF ~regimes_list.is_list \/ dated = {} THEN <<"N/A", NA>>
      ELSE <<items[latest].forma, IntStr(items[latest].ano)>>

\* regimes_list is [is_list, items]; an item is [ano, forma], forma "" when
\* the label is empty or null
get_regime_tributario(regimes_list, current_year) ==
  LET items == regimes_list.items
      \* dict comprehension: a later entry of the same year replaces an earlier one
      por_ano(y) ==
        LET idx == {i \in DOMAIN items : items[i].ano = y}
        IN  IF idx = {} THEN ""
            ELSE items[CHOOSE i \in idx : \A j \in idx : j <= i].forma
      hits == {y \in (current_year - 5)..current_year : por_ano(y) # ""}
      dated == {i \in DOMAIN items : items[i].ano # AnoNone}
      \* max(..., key=ano): the first entry among those of the greatest year
      latest == CHOOSE i \in dated :
                  /\ \A j \in dated : items[j].ano <= items[i].ano
                  /\ \A j \in dated : items[j].ano = items[i].ano => i <= j
  IN  IF ~regimes_list.is_list \/ items = <<>> THEN <<"N/A", NA>>
      ELSE IF hits # {}
           THEN LET y == CHOOSE h \in hits : \A g \in hits : g <= h
                IN  <<por_ano(y), IntStr(y)>>
           ELSE IF dated # {}
                THEN <<items[latest].forma, IntStr(items[latest].ano)>>
                ELSE <<"N/A", NA>>

\* variant: a flag that is absent or null is shown as "NAO"
FlagCol_NullIsNo(flag) == IF flag = "true" THEN "SIM" ELSE "NAO"

\* "SIM" if flag is truthy, "NAO" if it is False, "N/A" otherwise
FlagCol(flag) ==
  IF flag = "true" THEN "SIM" ELSE IF flag = "false" THEN "NAO" ELSE "N/A"

NoList == [is_list |-> FALSE, items |-> <<>>]

\* api_data is None
NoData ==
  [kind |-> "none", cnpj |-> FALSE, razao_social |-> "",
   opcao_pelo_simples |-> "null", opcao_pelo_mei |-> "null",
   regime_tributario |-> NoList]

\* datetime.now(BRASILIA_TZ).strftime(...): the clock to the second
Timestamp(clock) == clock \div 1000

montar_row(original_cnpj_str, cnpj_limpo, api_data, err_msg, clock) ==
  IF api_data.kind = "dict" /\ api_data.cnpj
  THEN LET reg == get_regime_tributario(api_data.regime_tributario, CurrentYear)
       IN  [CNPJ_ORIGINAL |-> original_cnpj_str,
            CNPJ_LIMPO |-> cnpj_limpo,
            Razao_Social |-> api_data.razao_social,
            Regime_Tributario |-> reg[1],
            Ano_Regime_Tributario |-> reg[2],
            Simples_Nacional |-> FlagCol(api_data.opcao_pelo_simples),
            MEI |-> FlagCol(api_data.opcao_pelo_mei),
            TIMESTAMP |-> Timestamp(clock)]
  ELSE [CNPJ_ORIGINAL |-> original_cnpj_str,
        CNPJ_LIMPO |-> cnpj_limpo,
        Razao_Social |-> IF err_msg = "None" THEN "Falha desconhecida" ELSE err_msg,
        Regime_Tributario |-> "N/A",
        Ano_Regime_Tributario |-> NA,
        Simples_Nacional |-> "N/A",
        MEI |-> "N/A",
        TIMESTAMP |-> Timestamp(clock)]

(***************************************************************************)
(* Job fingerprint and the autosave file                                   *)
(***************************************************************************)
RECURSIVE Join(_)
\* "\n".join(parts)
Join(parts) ==
  IF parts = <<>> THEN <<>>
  ELSE IF Len(parts) = 1 THEN parts[1]
  ELSE parts[1] \o <<"\n">> \o Join(Tail(parts))

RECURSIVE Uniq(_)
\* list(dict.fromkeys(raw)): first occurrences, in order
Uniq(raw) ==
  IF raw = <<>> THEN <<>>
  ELSE LET init == Uniq(SubSeq(raw, 1, Len(raw) - 1))
           last == raw[Len(raw)]
       IN  IF last \in Range(init) THEN init ELSE Append(init, last)

HasDigits(tok) == limpar_cnpj(tok) # <<>>

\* [limpar_cnpj(x) for x in uniq_inputs if limpar_cnpj(x)]
Normalized(uniq_inputs) ==
  LET kept == SelectSeq(uniq_inputs, HasDigits)
  IN  [i \in DOMAIN kept |-> limpar_cnpj(kept[i])]

\* variant: identifiers already in the list are left out of the digest
mk_job_id_Dedup(cnpjs) == Join(Uniq([i \in DOMAIN cnpjs |-> limpar_cnpj(cnpjs[i])]))

\* hashlib.md5 of the joined text, taken as collision free: the digest is
\* represented by the text it digests
mk_job_id(cnpjs) == Join([i \in DOMAIN cnpjs |-> limpar_cnpj(cnpjs[i])])

\* the autosave file of a job
mk_paths(job_id) == <<"autosave_">> \o job_id \o <<".csv">>

\* the handler up to mk_paths: the job of a batch of raw tokens, or the stop
\* on an empty batch
JobOf(raw) ==
  LET uniq_inputs == Uniq(raw)
      normalized == Normalized(uniq_inputs)
  IN  IF raw = <<>> \/ Len(uniq_inputs) > MAX_INPUTS \/ normalized = <<>>
      THEN [stopped |-> TRUE, job_id |-> <<>>, csv_autosave |-> <<>>]
      ELSE [stopped |-> FALSE, job_id |-> mk_job_id(normalized),
            csv_autosave |-> mk_paths(mk_job_id(normalized))]

\* pandas reads these cells of the file as missing values
NaTexts == {"", "N/A", "NA", "NULL", "NaN", "n/a", "nan", "null"}

\* one row as pd.read_csv(dtype=str) gives it back, then fillna("")
ReadRow(r) ==
  [r EXCEPT !.Razao_Social = IF @ \in NaTexts THEN "" ELSE @,
            !.Regime_Tributario = IF @ \in NaTexts THEN "" ELSE @,
            !.Ano_Regime_Tributario = IF @ = NA THEN <<>> ELSE @,
            !.Simples_Nacional = IF @ \in NaTexts THEN "" ELSE @,
            !.MEI = IF @ \in NaTexts THEN "" ELSE @]

read_csv(file) == [i \in DOMAIN file |-> ReadRow(file[i])]

\* variant: only the rows of identifiers that validated count as done
load_done_set_valid_only(file) ==
  {limpar_cnpj(file[i].CNPJ_LIMPO) :
     i \in {j \in DOMAIN file : file[j].Razao_Social # "CNPJ invalido (DV)"}}

\* the CNPJ_LIMPO column of the file, cleaned
load_done_set(file) == {limpar_cnpj(file[i].CNPJ_LIMPO) : i \in DOMAIN file}

\* rows are written in the CSV_COLS layout, in the order given
append_rows_csv(file, rows) == file \o rows

RECURSIVE ToDo_EverySpelling(_, _)
\* variant: no seen_clean test, every spelling of an identifier is submitted
ToDo_EverySpelling(uniq_inputs, done) ==
  IF uniq_inputs = <<>> THEN <<>>
  ELSE LET init == SubSeq(uniq_inputs, 1, Len(uniq_inputs) - 1)
           original == uniq_inputs[Len(uniq_inputs)]
           c == limpar_cnpj(original)
       IN  IF c = <<>> \/ c \in done
           THEN ToDo_EverySpelling(init, done)
           ELSE Append(ToDo_EverySpelling(init, done), original)

RECURSIVE ToDo_IgnoresDone(_, _)
\* variant: identifiers already in the store are submitted again
ToDo_IgnoresDone(uniq_inputs, done) ==
  IF uniq_inputs = <<>> THEN <<>>
  ELSE LET init == SubSeq(uniq_inputs, 1, Len(uniq_inputs) - 1)
           original == uniq_inputs[Len(uniq_inputs)]
           c == limpar_cnpj(original)
           seen_clean == {limpar_cnpj(init[i]) : i \in DOMAIN init} \ {<<>>}
       IN  IF c = <<>> \/ c \in seen_clean
           THEN ToDo_IgnoresDone(init, done)
           ELSE Append(ToDo_IgnoresDone(init, done), original)

RECURSIVE ToDo(_, _)
\* the loop over uniq_inputs that builds to_do_orig (seen_clean is the set of
\* cleaned forms of the tokens before the current one)
ToDo(uniq_inputs, done) ==
  IF uniq_inputs = <<>> THEN <<>>
  ELSE LET init == SubSeq(uniq_inputs, 1, Len(uniq_inputs) - 1)
           original == uniq_inputs[Len(uniq_inputs)]
           c == limpar_cnpj(original)
           seen_clean == {limpar_cnpj(init[i]) : i \in DOMAIN init} \ {<<>>}
       IN  IF c = <<>> \/ c \in seen_clean \/ c \in done
           THEN ToDo(init, done)
           ELSE Append(ToDo(init, done), original)

(***************************************************************************)
(* AdaptiveLimiter                                                         *)
(***************************************************************************)
\* penalties and streak are history: the penalize() calls so far, and the
\* reward() calls since the last penalize(), counted up to the window
NewLimiter ==
  [min_interval |-> START_INTERVAL, last_request_ts |-> 0,
   successes_since_last_adjust |-> 0, lock |-> 0, penalties |-> 0, streak |-> 0]

\* variant: the interval doubles without a ceiling
penalize_NoCeiling(l) ==
  [l EXCEPT !.min_interval = @ * ADAPT_FAIL_BACKOFF,
            !.successes_since_last_adjust = 0,
            !.penalties = @ + 1, !.streak = 0]

penalize(l) ==
  [l EXCEPT !.min_interval = Min(@ * ADAPT_FAIL_BACKOFF, MIN_INTERVAL_CEIL),
            !.successes_since_last_adjust = 0,
            !.penalties = @ + 1, !.streak = 0]

\* variant: the interval shrinks at every success
reward_EverySuccess(l) ==
  [l EXCEPT !.min_interval = Max((@ * 85) \div 100, MIN_INTERVAL_FLOOR),
            !.successes_since_last_adjust = 0,
            !.streak = Min(@ + 1, ADAPT_SUCC_WINDOW)]

\* min_interval * 0.85 is taken to the millisecond
reward(l) ==
  IF l.successes_since_last_adjust + 1 >= ADAPT_SUCC_WINDOW
  THEN [l EXCEPT !.min_interval = Max((@ * 85) \div 100, MIN_INTERVAL_FLOOR),
                 !.successes_since_last_adjust = 0,
                 !.streak = Min(@ + 1, ADAPT_SUCC_WINDOW)]
  ELSE [l EXCEPT !.successes_since_last_adjust = @ + 1,
                 !.streak = Min(@ + 1, ADAPT_SUCC_WINDOW)]

\* variant: wait_turn stamps the time without sleeping
WaitUntil_NoSleep(l, clock) == clock

\* the time wait_turn sleeps until, entered at time clock
WaitUntil(l, clock) == Max(clock, l.last_request_ts + l.min_interval)

Pow2(n) == IF n = 1 THEN 1 ELSE IF n = 2 THEN 2 ELSE 4

\* the duration _sleep_backoff sleeps, jitter being random.uniform(0, 0.6)
sleep_backoff(base_min_interval, attempt, jitter) ==
  Min(Max(base_min_interval, BACKOFF_BASE_MIN) * Pow2(attempt) + jitter,
      MIN_INTERVAL_CEIL)

(***************************************************************************)
(* Inputs: raw tokens, batches, registry responses                         *)
(***************************************************************************)
\* "11.222.333/0001-81": a valid headquarters identifier, formatted
TokHQFmt ==
  <<"1", "1", ".", "2", "2", "2", ".", "3", "3", "3", "/", "0", "0", "0", "1", "-", "8", "1">>
\* the same identifier, digits only
TokHQ == <<"1", "1", "2", "2", "2", "3", "3", "3", "0", "0", "0", "1", "8", "1">>
\* two valid branches of the same root
TokBr2 == <<"1", "1", "2", "2", "2", "3", "3", "3", "0", "0", "0", "2", "6", "2">>
TokBr3 == <<"1", "1", "2", "2", "2", "3", "3", "3", "0", "0", "0", "3", "4", "3">>
\* all digits identical (its checksum matches)
TokZeros == <<"0", "0", "0", "0", "0", "0", "0", "0", "0", "0", "0", "0", "0", "0">>
\* wrong second check digit
TokBadDv == <<"1", "1", "2", "2", "2", "3", "3", "3", "0", "0", "0", "1", "8", "0">>
\* wrong length
TokShort == <<"1", "2", "3">>
\* no digit at all
TokNoDigit == <<"a", "b">>

DataOk ==
  [kind |-> "dict", cnpj |-> TRUE, razao_social |-> "ACME",
   opcao_pelo_simples |-> "true", opcao_pelo_mei |-> "false",
   regime_tributario |->
     [is_list |-> TRUE, items |-> <<[ano |-> CurrentYear - 1, forma |-> "LUCRO REAL"]>>]]

\* a 200 response whose JSON has a message and no cnpj field
DataNoCnpj ==
  [kind |-> "dict", cnpj |-> FALSE, razao_social |-> "",
   opcao_pelo_simples |-> "null", opcao_pelo_mei |-> "null",
   regime_tributario |-> NoList]

\* Retry-After header: absent (or not a number), or a number of ms
RetryAfterAbsent == 0 - 1
RetryAfterVals == {RetryAfterAbsent, 3000}

Resp(type, status, retry_after, data) ==
  [type |-> type, status |-> status, retry_after |-> retry_after, data |-> data]

NoResp == Resp("none", 0, RetryAfterAbsent, NoData)

\* what one registry request can end in
Outcomes ==
  {Resp("ok", 200, RetryAfterAbsent, d) : d \in {DataOk, DataNoCnpj}}
  \cup {Resp("retryable", st, ra, NoData) : st \in {429, 503}, ra \in RetryAfterVals}
  \cup {Resp(t, 0, RetryAfterAbsent, NoData) : t \in {"timeout", "connection"}}
  \cup {Resp("http_error", 404, RetryAfterAbsent, NoData),
        Resp("bad_json", 200, RetryAfterAbsent, NoData)}

\* f"HTTP {resp.status_code}"
HttpErr(status) ==
  CASE status = 429 -> "HTTP 429" [] status = 500 -> "HTTP 500"
    [] status = 502 -> "HTTP 502" [] status = 503 -> "HTTP 503"
    [] status = 504 -> "HTTP 504" [] OTHER -> "HTTP"

NoRow ==
  [CNPJ_ORIGINAL |-> <<>>, CNPJ_LIMPO |-> <<>>, Razao_Social |-> "",
   Regime_Tributario |-> "", Ano_Regime_Tributario |-> <<>>,
   Simples_Nacional |-> "", MEI |-> "", TIMESTAMP |-> 0]

\* scenarios of the environment: what the registry answers
OkOutcomes == {o \in Outcomes : o.type = "ok"}
FailOutcomes ==
  {o \in Outcomes : o.type \in {"retryable", "timeout", "connection"}}
TerminalOutcomes == {o \in Outcomes : o.type \in {"http_error", "bad_json"}}

Case(input, force, reg, jit, threads) ==
  [input |-> input, force |-> force, registry |-> reg, jitters |-> jit,
   threads |-> threads]

\* the runs explored: the token list of the text area, the checkbox, and
\* the scenario of the environment
Ok == Resp("ok", 200, RetryAfterAbsent, DataOk)
Http429 == Resp("retryable", 429, RetryAfterAbsent, NoData)
TimedOut == Resp("timeout", 0, RetryAfterAbsent, NoData)

Cases ==
  { Case(<<TokHQFmt, TokHQ, TokZeros>>, FALSE, Outcomes, {0, JITTER_MAX}, 3),
    Case(<<TokBr3, TokBr2>>, FALSE, {Ok, Http429}, {0}, 3),
    Case(<<TokBr3, TokBr2>>, TRUE, {Ok, Http429}, {0}, 3),
    Case(<<TokBr2, TokHQ, TokBr2>>, TRUE, OkOutcomes \cup TerminalOutcomes, {0}, 3),
    Case(<<TokZeros, TokNoDigit, TokShort, TokBadDv, TokShort>>, FALSE, {Ok}, {0}, 3),
    Case(<<TokHQ, TokBr3, TokBr2>>, FALSE, {Ok}, {0}, 3),
    Case(<<TokBadDv, TokBr2>>, FALSE, {TimedOut}, {0}, 2),
    Case(<<TokNoDigit>>, FALSE, {Ok}, {0}, 3),
    Case(<<>>, FALSE, {Ok}, {0}, 3) }

\* a block of invalid tokens and ExtraRows more, the last one valid or not
ExtraRows == 1
BlockInput(last) ==
  [i \in 1..(AUTOSAVE_BLOCK + ExtraRows) |->
     IF i = AUTOSAVE_BLOCK + ExtraRows THEN last ELSE IntStr(i)]

BlockCases ==
  { Case(BlockInput(TokShort \o TokShort), FALSE, {Ok}, {0}, 2),
    Case(BlockInput(TokHQ), FALSE, {Ok, Http429}, {0}, 1) }

\* every request fails, and a run where the registry answers anything
FairCases ==
  { Case(<<TokBr3, TokZeros, TokBr2>>, FALSE, {TimedOut}, {0}, 2),
    Case(<<TokZeros, TokBr2, TokShort>>, FALSE, {TimedOut, Http429}, {0}, 3),
    Case(<<TokBr3, TokBr2>>, TRUE, {TimedOut}, {0}, 3),
    Case(<<TokHQ>>, TRUE, Outcomes, {0}, 3) }

\* raw tokens of the batches whose fingerprints are compared
JobTokens == {TokHQFmt, TokHQ, TokBr2, TokNoDigit}

RECURSIVE SeqsUpTo(_, _)
\* the sequences over S of length at most n
SeqsUpTo(S, n) ==
  IF n = 0 THEN {<<>>}
  ELSE LET shorter == SeqsUpTo(S, n - 1)
       IN  shorter \cup {Append(q, x) : q \in shorter, x \in S}

\* pairs of batches
JobInputs == SeqsUpTo(JobTokens, MaxJobLen) \X SeqsUpTo(JobTokens, MaxJobLen)

\* regime histories a registry record can carry
Histories ==
  { NoList,
    [is_list |-> TRUE, items |-> <<>>],
    [is_list |-> TRUE, items |-> <<[ano |-> CurrentYear - 1, forma |-> "LUCRO REAL"]>>],
    [is_list |-> TRUE, items |-> <<[ano |-> CurrentYear - 6, forma |-> "LUCRO PRESUMIDO"],
                                   [ano |-> CurrentYear - 1, forma |-> "SIMPLES NACIONAL"]>>],
    [is_list |-> TRUE, items |-> <<[ano |-> CurrentYear - 15, forma |-> "LUCRO REAL"],
                                   [ano |-> CurrentYear - 9, forma |-> "LUCRO ARBITRADO"]>>],
    [is_list |-> TRUE, items |-> <<[ano |-> CurrentYear, forma |-> ""],
                                   [ano |-> AnoNone, forma |-> "LUCRO REAL"]>>] }

Flags == {"true", "false", "null"}

\* registry records given to montar_row
RowInputs ==
  [kind : {"dict"}, cnpj : BOOLEAN, razao_social : {"ACME"},
   opcao_pelo_simples : Flags, opcao_pelo_mei : Flags, regime_tributario : Histories]

\* bases of twelve digits: the ten of one repeated digit and the hundred
\* branches of one company root
Bases12 ==
  {[k \in 1..12 |-> d] : d \in Digits} \cup
  {<<"1", "1", "2", "2", "2", "3", "3", "3", "0", "0", a, b>> : a \in Digits, b \in Digits}

\* identifiers given to cnpj_is_valid: a base with any two last digits, and
\* texts of thirteen and fifteen digits
IdInputs ==
  {b \o <<x, y>> : b \in Bases12, x \in Digits, y \in Digits} \cup
  {Append(b, x) : b \in Bases12, x \in Digits} \cup
  {TokHQ \o <<x>> : x \in Digits}

\* digit texts given to to_matriz_if_filial: the identifiers above, the empty
\* text and a short one
HqInputs == IdInputs \cup {<<>>, TokShort}

\* longest regime history given to get_regime_tributario alone
MaxHist == 3

\* years an entry of a history can carry: none, before the window, its first
\* year, inside it, and after the current year
EntryYears == {AnoNone, CurrentYear - 6, CurrentYear - 5, CurrentYear - 1, CurrentYear + 1}

\* labels of an entry; "" is an empty or null label
EntryLabels == {"", "A", "B"}

\* histories and the calendar year get_regime_tributario reads
RegimeInputs ==
  [regimes_list : {NoList} \cup
                  [is_list : {TRUE},
                   items : SeqsUpTo([ano : EntryYears, forma : EntryLabels], MaxHist)],
   current_year : {CurrentYear, CurrentYear + 1}]

(***************************************************************************)
(* State                                                                   *)
(***************************************************************************)
VARIABLES
  cnpjs_input,        \* the tokens of the text area
  force_matriz,       \* the checkbox
  phase,              \* where the handler is
  run,                \* number of clicks so far
  csv_autosave,       \* the rows of the autosave file of this job
  done_set,
  to_do_orig,
  task,               \* one future per entry of to_do_orig
  buffer_rows,
  all_rows_this_run,
  df_full,            \* the consolidated report shown
  limiter,            \* limiter_global
  cache,              \* _CACHE
  now,                \* the clock, ms
  registry,           \* environment: what a registry request can end in
  jitters,            \* environment: the values random.uniform(0, 0.6) takes, ms
  pool_threads,       \* environment: threads the executor started (1..MAX_WORKERS)
  finished,           \* futures finished and not yet yielded by as_completed
  net_keys,           \* history: identifiers requested from the registry in this run
  net_calls,          \* history: registry requests issued in this run
  cache_ops,          \* history: cache_get and cache_set calls of this run
  passes,             \* history: wait_turn passes on this limiter
  last_gap,           \* history: time between the last two passes
  prev_report,        \* history: the report of the previous run
  fn_in,              \* input of the function under study
  fn_out              \* its result

batchVars ==
  <<cnpjs_input, force_matriz, phase, run, csv_autosave, done_set, to_do_orig, task,
    buffer_rows, all_rows_this_run, df_full, limiter, cache, now, registry, jitters,
    pool_threads, finished, net_keys, net_calls, cache_ops, passes, last_gap, prev_report>>

vars == <<batchVars, fn_in, fn_out>>

\* history of one task: the calls it has made so far (wait_turn, sess.get,
\* penalize, reward, the sleeps after a failure), the attempts that ended in
\* a retryable status, a timeout or a connection error, what its first and
\* its latest request ended in, and what its cache_get found ("none" before
\* the call, then "hit" or "miss")
NoLog ==
  [wait_turn |-> 0, get |-> 0, transient |-> 0, penalize |-> 0, reward |-> 0,
   sleep |-> 0, first |-> NoResp, last |-> NoResp, cache_get |-> "none"]

NewTask ==
  [pc |-> "queued", query_key |-> <<>>, attempt |-> 0, last_err |-> "None",
   resp |-> NoResp, wake |-> 0, row |-> NoRow, log |-> NoLog]

\* the task occupies a pool thread
Running(t) == t.pc \notin {"queued", "done", "collected"}

NumRunning == Cardinality({i \in DOMAIN task : Running(task[i])})

Original(i) == to_do_orig[i]
Cleaned(i) == limpar_cnpj(to_do_orig[i])

InitBatch(cases) ==
  /\ \E c \in cases :
       /\ cnpjs_input = c.input
       /\ force_matriz = c.force
       /\ registry = c.registry
       /\ jitters = c.jitters
       /\ pool_threads = c.threads
  /\ phase = "idle"
  /\ run = 0
  /\ csv_autosave = <<>>
  /\ done_set = {}
  /\ to_do_orig = <<>>
  /\ task = <<>>
  /\ finished = <<>>
  /\ buffer_rows = <<>>
  /\ all_rows_this_run = <<>>
  /\ df_full = <<>>
  /\ limiter = NewLimiter
  /\ cache = <<>>
  /\ now = Epoch
  /\ net_keys = {}
  /\ net_calls = 0
  /\ cache_ops = 0
  /\ passes = 0
  /\ last_gap = 0
  /\ prev_report = <<>>

Init ==
  /\ InitBatch(Cases)
  /\ fn_in = "none"
  /\ fn_out = "none"

(***************************************************************************)
(* The handler of the button                                               *)
(***************************************************************************)
\* the click up to the submission of the tasks: tokenize, dedupe, fingerprint,
\* load the done set, build to_do_orig, create the limiter, submit
StartRun ==
  /\ phase \in {"idle", "reported"}
  /\ run < MaxRuns
  /\ run' = run + 1
  /\ LET uniq_inputs == Uniq(cnpjs_input)
         normalized == Normalized(uniq_inputs)
         done == load_done_set(csv_autosave)
         todo == ToDo(uniq_inputs, done)
     IN  IF cnpjs_input = <<>> \/ Len(uniq_inputs) > MAX_INPUTS \/ normalized = <<>>
         THEN /\ phase' = "stopped"
              /\ UNCHANGED <<done_set, to_do_orig, task>>
         ELSE /\ done_set' = done
              /\ to_do_orig' = todo
              /\ task' = [i \in DOMAIN todo |-> NewTask]
              /\ phase' = IF todo # <<>> THEN "running" ELSE "consolidate"
  /\ finished' = <<>>
  /\ buffer_rows' = <<>>
  /\ all_rows_this_run' = <<>>
  /\ limiter' = NewLimiter
  /\ cache' = <<>>
  /\ net_keys' = {}
  /\ net_calls' = 0
  /\ cache_ops' = 0
  /\ passes' = 0
  /\ last_gap' = 0
  /\ prev_report' = df_full
  /\ UNCHANGED <<cnpjs_input, force_matriz, csv_autosave, df_full, now, registry, jitters,
                 pool_threads, fn_in, fn_out>>

\* _mark_done_from_rows
mark_done(done, rows) ==
  done \cup ({limpar_cnpj(rows[i].CNPJ_LIMPO) : i \in DOMAIN rows} \ {<<>>})

\* variant: the buffer is flushed only once it holds more than a block
Collect_LateFlush ==
  /\ phase = "running"
  /\ finished # <<>>
  /\ LET i == Head(finished)
         row == task[i].row
         buf == Append(buffer_rows, row)
     IN  /\ all_rows_this_run' = Append(all_rows_this_run, row)
         /\ IF Len(buf) > AUTOSAVE_BLOCK
            THEN /\ csv_autosave' = append_rows_csv(csv_autosave, buf)
                 /\ done_set' = mark_done(done_set, buf)
                 /\ buffer_rows' = <<>>
            ELSE /\ buffer_rows' = buf
                 /\ UNCHANGED <<csv_autosave, done_set>>
         /\ task' = [task EXCEPT ![i].pc = "collected", ![i].row = NoRow]
  /\ finished' = Tail(finished)
  /\ UNCHANGED <<cnpjs_input, force_matriz, phase, run, to_do_orig, df_full, limiter,
                 cache, now, registry, jitters, pool_threads, net_keys, net_calls, cache_ops,
                 passes, last_gap, prev_report, fn_in, fn_out>>

\* one iteration of the as_completed loop: take the next finished future
\* (futures are yielded in the order they finished),
\* buffer its row and autosave the buffer when it holds a block
Collect ==
  /\ phase = "running"
  /\ finished # <<>>
  /\ LET i == Head(finished)
         row == task[i].row
         buf == Append(buffer_rows, row)
     IN  /\ all_rows_this_run' = Append(all_rows_this_run, row)
         /\ IF Len(buf) >= AUTOSAVE_BLOCK
            THEN /\ csv_autosave' = append_rows_csv(csv_autosave, buf)
                 /\ done_set' = mark_done(done_set, buf)
                 /\ buffer_rows' = <<>>
            ELSE /\ buffer_rows' = buf
                 /\ UNCHANGED <<csv_autosave, done_set>>
         /\ task' = [task EXCEPT ![i].pc = "collected", ![i].row = NoRow]
  /\ finished' = Tail(finished)
  /\ UNCHANGED <<cnpjs_input, force_matriz, phase, run, to_do_orig, df_full, limiter,
                 cache, now, registry, jitters, pool_threads, net_keys, net_calls, cache_ops,
                 passes, last_gap, prev_report, fn_in, fn_out>>

\* the loop has ended and the pool is shut down: flush what the buffer holds
FinalFlush ==
  /\ phase = "running"
  /\ \A i \in DOMAIN task : task[i].pc = "collected"
  /\ csv_autosave' =
       IF buffer_rows # <<>> THEN append_rows_csv(csv_autosave, buffer_rows)
       ELSE csv_autosave
  /\ phase' = "consolidate"
  /\ UNCHANGED <<cnpjs_input, force_matriz, run, done_set, to_do_orig, task, buffer_rows,
                 all_rows_this_run, df_full, limiter, cache, now, registry, jitters,
                 pool_threads, finished, net_keys, net_calls, cache_ops, passes, last_gap,
                 prev_report, fn_in, fn_out>>

\* rows re-sorted by the place of their token in to_do_orig
SortedByInput(rows) ==
  LET pos(r) == CHOOSE k \in DOMAIN to_do_orig : to_do_orig[k] = r.CNPJ_ORIGINAL
      rank(i) == Cardinality({j \in DOMAIN rows : pos(rows[j]) <= pos(rows[i])})
  IN  [n \in DOMAIN rows |-> rows[CHOOSE i \in DOMAIN rows : rank(i) = n]]

\* variant: the read-back is re-sorted into input order before it is shown
Report_Sorted ==
  /\ phase = "consolidate"
  /\ LET read == IF csv_autosave # <<>> THEN read_csv(csv_autosave) ELSE <<>>
     IN  df_full' = IF to_do_orig # <<>> THEN SortedByInput(read) ELSE read
  /\ phase' = "reported"
  /\ UNCHANGED <<cnpjs_input, force_matriz, run, csv_autosave, done_set, to_do_orig, task,
                 buffer_rows, all_rows_this_run, limiter, cache, now, registry, jitters,
                 pool_threads, finished, net_keys, net_calls, cache_ops, passes, last_gap,
                 prev_report, fn_in, fn_out>>

\* the consolidated read-back shown and exported
Report ==
  /\ phase = "consolidate"
  /\ LET read == IF csv_autosave # <<>> THEN read_csv(csv_autosave) ELSE <<>>
     IN  df_full' = IF read = <<>> /\ all_rows_this_run # <<>>
                    THEN all_rows_this_run ELSE read
  /\ phase' = "reported"
  /\ UNCHANGED <<cnpjs_input, force_matriz, run, csv_autosave, done_set, to_do_orig, task,
                 buffer_rows, all_rows_this_run, limiter, cache, now, registry, jitters,
                 pool_threads, finished, net_keys, net_calls, cache_ops, passes, last_gap,
                 prev_report, fn_in, fn_out>>

(***************************************************************************)
(* The worker tasks: process_one_cnpj and request_cnpj_with_retry          *)
(***************************************************************************)
frame_handler ==
  UNCHANGED <<cnpjs_input, force_matriz, phase, run, csv_autosave, done_set, to_do_orig,
              buffer_rows, all_rows_this_run, df_full, registry, jitters, pool_threads,
              prev_report, fn_in, fn_out>>

\* a pool thread takes the oldest work item of the queue; the executor starts
\* its threads on demand, so pool_threads of the MAX_WORKERS may be running
TaskStart(i) ==
  /\ phase = "running"
  /\ task[i].pc = "queued"
  /\ \A j \in DOMAIN task : j < i => task[j].pc # "queued"
  /\ NumRunning < pool_threads
  /\ task' = [task EXCEPT ![i].pc = "start"]
  /\ frame_handler
  /\ UNCHANGED <<finished, limiter, cache, now, net_keys, net_calls, cache_ops, passes, last_gap>>

\* variant: the placeholder row of an invalid identifier is stored in the cache
TaskInvalid_Cached(i) ==
  /\ task[i].pc = "start"
  /\ ~cnpj_is_valid(Cleaned(i))
  /\ LET row == montar_row(Original(i), Cleaned(i), NoData, "CNPJ invalido (DV)", now)
     IN  /\ task' = [task EXCEPT ![i].pc = "done", ![i].row = row]
         /\ cache' = [k \in DOMAIN cache \cup {Cleaned(i)} |->
                        IF k = Cleaned(i) THEN row ELSE cache[k]]
  /\ cache_ops' = cache_ops + 1
  /\ finished' = Append(finished, i)
  /\ frame_handler
  /\ UNCHANGED <<limiter, now, net_keys, net_calls, passes, last_gap>>

\* process_one_cnpj, the identifier does not validate: the placeholder row
TaskInvalid(i) ==
  /\ task[i].pc = "start"
  /\ ~cnpj_is_valid(Cleaned(i))
  /\ task' = [task EXCEPT
       ![i].pc = "done",
       ![i].row = montar_row(Original(i), Cleaned(i), NoData, "CNPJ invalido (DV)", now)]
  /\ finished' = Append(finished, i)
  /\ frame_handler
  /\ UNCHANGED <<limiter, cache, now, net_keys, net_calls, cache_ops, passes, last_gap>>

\* variant: the cached row is returned as it is
HitRow_AsCached(cached, original_cnpj_str, cleaned) == cached

\* the row returned on a cache hit: a copy with the task's own identifier
HitRow(cached, original_cnpj_str, cleaned) ==
  [cached EXCEPT !.CNPJ_ORIGINAL = original_cnpj_str, !.CNPJ_LIMPO = cleaned]

QueryKey(cleaned, force) == IF force THEN to_matriz_if_filial(cleaned) ELSE cleaned

\* variant: the task fetches whatever the cache holds
TaskCacheGet_AlwaysMiss(i) ==
  /\ task[i].pc = "start"
  /\ cnpj_is_valid(Cleaned(i))
  /\ LET query_key == QueryKey(Cleaned(i), force_matriz)
     IN  /\ task' = [task EXCEPT
              ![i].pc = "wait_turn",
              ![i].query_key = query_key,
              ![i].attempt = 1,
              ![i].log.cache_get = "miss"]
         /\ UNCHANGED finished
  /\ cache_ops' = cache_ops + 1
  /\ frame_handler
  /\ UNCHANGED <<limiter, cache, now, net_keys, net_calls, passes, last_gap>>

\* process_one_cnpj, a valid identifier: the query key and cache_get
TaskCacheGet(i) ==
  /\ task[i].pc = "start"
  /\ cnpj_is_valid(Cleaned(i))
  /\ LET query_key == QueryKey(Cleaned(i), force_matriz)
     IN  IF query_key \in DOMAIN cache
         THEN /\ task' = [task EXCEPT
                   ![i].pc = "done",
                   ![i].query_key = query_key,
                   ![i].row = HitRow(cache[query_key], Original(i), Cleaned(i)),
                   ![i].log.cache_get = "hit"]
              /\ finished' = Append(finished, i)
         ELSE /\ task' = [task EXCEPT
                   ![i].pc = "wait_turn",
                   ![i].query_key = query_key,
                   ![i].attempt = 1,
                   ![i].log.cache_get = "miss"]
              /\ UNCHANGED finished
  /\ cache_ops' = cache_ops + 1
  /\ frame_handler
  /\ UNCHANGED <<limiter, cache, now, net_keys, net_calls, passes, last_gap>>

\* wait_turn: take the lock, read the clock, compute how long to sleep
WaitTurnEnter(i) ==
  /\ task[i].pc = "wait_turn"
  /\ limiter.lock = 0
  /\ limiter' = [limiter EXCEPT !.lock = i]
  /\ task' = [task EXCEPT ![i].pc = "in_gate", ![i].wake = WaitUntil(limiter, now)]
  /\ UNCHANGED finished
  /\ frame_handler
  /\ UNCHANGED <<cache, now, net_keys, net_calls, cache_ops, passes, last_gap>>

\* variant: wait_turn returns without releasing the lock
WaitTurnExit_KeepLock(i) ==
  /\ task[i].pc = "in_gate"
  /\ limiter.lock = i
  /\ now' = Max(now, task[i].wake)
  /\ limiter' = [limiter EXCEPT !.last_request_ts = now']
  /\ passes' = passes + 1
  /\ last_gap' = now' - limiter.last_request_ts
  /\ task' = [task EXCEPT ![i].pc = "request", ![i].wake = 0,
                          ![i].log.wait_turn = @ + 1]
  /\ UNCHANGED finished
  /\ frame_handler
  /\ UNCHANGED <<cache, net_keys, net_calls, cache_ops>>

\* wait_turn: the sleep (if any) is over, stamp last_request_ts, release
WaitTurnExit(i) ==
  /\ task[i].pc = "in_gate"
  /\ limiter.lock = i
  /\ now' = Max(now, task[i].wake)
  /\ limiter' = [limiter EXCEPT !.last_request_ts = now', !.lock = 0]
  /\ passes' = passes + 1
  /\ last_gap' = now' - limiter.last_request_ts
  /\ task' = [task EXCEPT ![i].pc = "request", ![i].wake = 0,
                          ![i].log.wait_turn = @ + 1]
  /\ UNCHANGED finished
  /\ frame_handler
  /\ UNCHANGED <<cache, net_keys, net_calls, cache_ops>>

\* variant: any failed request penalizes the limiter and is retried
Request_PenalizeAnyError(i) ==
  /\ task[i].pc = "request"
  /\ net_keys' = net_keys \cup {task[i].query_key}
  /\ net_calls' = net_calls + 1
  /\ \E r \in registry :
       task' = [task EXCEPT
         ![i].resp = r,
         ![i].pc = IF r.type = "ok" THEN "reward" ELSE "penalize",
         ![i].log.get = @ + 1,
         ![i].log.transient = IF r.type = "ok" THEN @ ELSE @ + 1,
         ![i].log.first = IF task[i].log.get = 0 THEN r ELSE @,
         ![i].log.last = r]
  /\ UNCHANGED finished
  /\ frame_handler
  /\ UNCHANGED <<limiter, cache, now, cache_ops, passes, last_gap>>

\* sess.get(...) and the classification of what it ends in
Request(i) ==
  /\ task[i].pc = "request"
  /\ net_keys' = net_keys \cup {task[i].query_key}
  /\ net_calls' = net_calls + 1
  /\ \E r \in registry :
       task' = [task EXCEPT
         ![i].resp = IF r.type \in {"http_error", "bad_json"} THEN NoResp ELSE r,
         ![i].last_err =
            CASE r.type = "http_error" -> "HTTP 404 - not found"
              [] r.type = "bad_json" -> "Erro Inesperado"
              [] OTHER -> task[i].last_err,
         ![i].pc =
            CASE r.type = "ok" -> "reward"
              [] r.type \in {"retryable", "timeout", "connection"} -> "penalize"
              [] OTHER -> "finish",
         ![i].log.get = @ + 1,
         ![i].log.transient =
            IF r.type \in {"retryable", "timeout", "connection"} THEN @ + 1 ELSE @,
         ![i].log.first = IF task[i].log.get = 0 THEN r ELSE @,
         ![i].log.last = r]
  /\ UNCHANGED finished
  /\ frame_handler
  /\ UNCHANGED <<limiter, cache, now, cache_ops, passes, last_gap>>

\* variant: the failed attempt penalizes the limiter twice
Penalize_Twice(i) ==
  /\ task[i].pc = "penalize"
  /\ limiter.lock = 0
  /\ limiter' = penalize(penalize(limiter))
  /\ task' = [task EXCEPT ![i].pc = "backoff", ![i].log.penalize = @ + 1]
  /\ UNCHANGED finished
  /\ frame_handler
  /\ UNCHANGED <<cache, now, net_keys, net_calls, cache_ops, passes, last_gap>>

\* limiter.penalize() after a retryable status, a timeout or a connection error
Penalize(i) ==
  /\ task[i].pc = "penalize"
  /\ limiter.lock = 0
  /\ limiter' = penalize(limiter)
  /\ task' = [task EXCEPT ![i].pc = "backoff", ![i].log.penalize = @ + 1]
  /\ UNCHANGED finished
  /\ frame_handler
  /\ UNCHANGED <<cache, now, net_keys, net_calls, cache_ops, passes, last_gap>>

\* the sleep after penalize: Retry-After when given, else _sleep_backoff on
\* limiter.min_interval read without the lock
BackoffStart(i) ==
  /\ task[i].pc = "backoff"
  /\ \E jitter \in jitters :
       LET ra == task[i].resp.retry_after
           d == IF task[i].resp.type = "retryable" /\ ra # RetryAfterAbsent
                THEN Min(ra, MIN_INTERVAL_CEIL)
                ELSE sleep_backoff(limiter.min_interval, task[i].attempt, jitter)
       IN  task' = [task EXCEPT ![i].pc = "sleeping", ![i].wake = now + d,
                                 ![i].log.sleep = @ + 1]
  /\ UNCHANGED finished
  /\ frame_handler
  /\ UNCHANGED <<limiter, cache, now, net_keys, net_calls, cache_ops, passes, last_gap>>

\* variant: the description of the first failure is kept
BackoffEnd_FirstError(i) ==
  /\ task[i].pc = "sleeping"
  /\ now' = Max(now, task[i].wake)
  /\ LET err == CASE task[i].resp.type = "retryable" -> HttpErr(task[i].resp.status)
                  [] task[i].resp.type = "timeout" -> "Timeout"
                  [] OTHER -> "ConnectionError"
         kept == IF task[i].last_err = "None" THEN err ELSE task[i].last_err
     IN  IF task[i].attempt < TOTAL_RETRIES
         THEN task' = [task EXCEPT ![i].pc = "wait_turn", ![i].attempt = @ + 1,
                                   ![i].last_err = kept, ![i].resp = NoResp, ![i].wake = 0]
         ELSE task' = [task EXCEPT ![i].pc = "finish", ![i].last_err = kept,
                                   ![i].resp = NoResp, ![i].wake = 0]
  /\ UNCHANGED finished
  /\ frame_handler
  /\ UNCHANGED <<limiter, cache, net_keys, net_calls, cache_ops, passes, last_gap>>

\* variant: one attempt more than TOTAL_RETRIES
BackoffEnd_OneMore(i) ==
  /\ task[i].pc = "sleeping"
  /\ now' = Max(now, task[i].wake)
  /\ LET err == CASE task[i].resp.type = "retryable" -> HttpErr(task[i].resp.status)
                  [] task[i].resp.type = "timeout" -> "Timeout"
                  [] OTHER -> "ConnectionError"
     IN  IF task[i].attempt < TOTAL_RETRIES + 1
         THEN task' = [task EXCEPT ![i].pc = "wait_turn", ![i].attempt = @ + 1,
                                   ![i].last_err = err, ![i].resp = NoResp, ![i].wake = 0]
         ELSE task' = [task EXCEPT ![i].pc = "finish", ![i].last_err = err,
                                   ![i].resp = NoResp, ![i].wake = 0]
  /\ UNCHANGED finished
  /\ frame_handler
  /\ UNCHANGED <<limiter, cache, net_keys, net_calls, cache_ops, passes, last_gap>>

\* variant: the next attempt is made without a wait_turn
BackoffEnd_NoGate(i) ==
  /\ task[i].pc = "sleeping"
  /\ now' = Max(now, task[i].wake)
  /\ LET err == CASE task[i].resp.type = "retryable" -> HttpErr(task[i].resp.status)
                  [] task[i].resp.type = "timeout" -> "Timeout"
                  [] OTHER -> "ConnectionError"
     IN  IF task[i].attempt < TOTAL_RETRIES
         THEN task' = [task EXCEPT ![i].pc = "request", ![i].attempt = @ + 1,
                                   ![i].last_err = err, ![i].resp = NoResp, ![i].wake = 0]
         ELSE task' = [task EXCEPT ![i].pc = "finish", ![i].last_err = err,
                                   ![i].resp = NoResp, ![i].wake = 0]
  /\ UNCHANGED finished
  /\ frame_handler
  /\ UNCHANGED <<limiter, cache, net_keys, net_calls, cache_ops, passes, last_gap>>

\* the sleep is over: record last_err, then the next attempt or give up
BackoffEnd(i) ==
  /\ task[i].pc = "sleeping"
  /\ now' = Max(now, task[i].wake)
  /\ LET err == CASE task[i].resp.type = "retryable" -> HttpErr(task[i].resp.status)
                  [] task[i].resp.type = "timeout" -> "Timeout"
                  [] OTHER -> "ConnectionError"
     IN  IF task[i].attempt < TOTAL_RETRIES
         THEN task' = [task EXCEPT ![i].pc = "wait_turn", ![i].attempt = @ + 1,
                                   ![i].last_err = err, ![i].resp = NoResp, ![i].wake = 0]
         ELSE task' = [task EXCEPT ![i].pc = "finish", ![i].last_err = err,
                                   ![i].resp = NoResp, ![i].wake = 0]
  /\ UNCHANGED finished
  /\ frame_handler
  /\ UNCHANGED <<limiter, cache, net_keys, net_calls, cache_ops, passes, last_gap>>

\* resp.json() parsed: limiter.reward(), return (data, None)
Reward(i) ==
  /\ task[i].pc = "reward"
  /\ limiter.lock = 0
  /\ limiter' = reward(limiter)
  /\ task' = [task EXCEPT ![i].pc = "finish", ![i].last_err = "None",
                          ![i].log.reward = @ + 1]
  /\ UNCHANGED finished
  /\ frame_handler
  /\ UNCHANGED <<cache, now, net_keys, net_calls, cache_ops, passes, last_gap>>

cache_set(c, cnpj_key, data) ==
  [k \in DOMAIN c \cup {cnpj_key} |-> IF k = cnpj_key THEN data ELSE c[k]]

\* back in process_one_cnpj: montar_row, cache_set, return the row
Finish(i) ==
  /\ task[i].pc = "finish"
  /\ LET row == montar_row(Original(i), Cleaned(i), task[i].resp.data,
                           task[i].last_err, now)
     IN  /\ cache' = cache_set(cache, task[i].query_key, row)
         /\ task' = [task EXCEPT ![i].pc = "done", ![i].row = row, ![i].resp = NoResp,
                                 ![i].last_err = "None", ![i].attempt = 0]
  /\ finished' = Append(finished, i)
  /\ cache_ops' = cache_ops + 1
  /\ frame_handler
  /\ UNCHANGED <<limiter, now, net_keys, net_calls, passes, last_gap>>

Next ==
  \/ StartRun
  \/ \E i \in DOMAIN task : TaskStart(i)
  \/ \E i \in DOMAIN task : TaskInvalid(i)
  \/ \E i \in DOMAIN task : TaskCacheGet(i)
  \/ \E i \in DOMAIN task : WaitTurnEnter(i)
  \/ \E i \in DOMAIN task : WaitTurnExit(i)
  \/ \E i \in DOMAIN task : Request(i)
  \/ \E i \in DOMAIN task : Penalize(i)
  \/ \E i \in DOMAIN task : BackoffStart(i)
  \/ \E i \in DOMAIN task : BackoffEnd(i)
  \/ \E i \in DOMAIN task : Reward(i)
  \/ \E i \in DOMAIN task : Finish(i)
  \/ Collect
  \/ FinalFlush
  \/ Report

Spec == Init /\ [][Next]_vars

\* runs long enough to fill an autosave block
InitBlock ==
  /\ InitBatch(BlockCases)
  /\ fn_in = "none"
  /\ fn_out = "none"

SpecBlock == InitBlock /\ [][Next]_vars

\* batches whose runs can crash: one that fills an autosave block before its
\* last token, and a short one with two spellings of an identifier
CrashCases ==
  { Case(BlockInput(TokHQ), FALSE, {Ok, Http429}, {0}, 1),
    Case(<<TokHQFmt, TokHQ, TokZeros>>, FALSE, {Ok, TimedOut}, {0}, 2) }

InitCrash ==
  /\ InitBatch(CrashCases)
  /\ fn_in = "none"
  /\ fn_out = "none"

\* the process dies between two steps of the handler, with its threads: all
\* that is left is the autosave file; the same batch is entered again
Crash ==
  /\ phase \in {"running", "consolidate"}
  /\ phase' = "idle"
  /\ done_set' = {}
  /\ to_do_orig' = <<>>
  /\ task' = <<>>
  /\ finished' = <<>>
  /\ buffer_rows' = <<>>
  /\ all_rows_this_run' = <<>>
  /\ df_full' = <<>>
  /\ limiter' = NewLimiter
  /\ cache' = <<>>
  /\ net_keys' = {}
  /\ net_calls' = 0
  /\ cache_ops' = 0
  /\ passes' = 0
  /\ last_gap' = 0
  /\ prev_report' = <<>>
  /\ UNCHANGED <<cnpjs_input, force_matriz, run, csv_autosave, now, registry, jitters,
                 pool_threads, fn_in, fn_out>>

NextCrash ==
  \/ Next
  \/ Crash

SpecCrash == InitCrash /\ [][NextCrash]_vars

\* the steps of one run: the pool threads and the dispatcher thread
RunStep ==
  \/ \E i \in DOMAIN task :
       \/ TaskStart(i) \/ TaskInvalid(i) \/ TaskCacheGet(i)
       \/ WaitTurnEnter(i) \/ WaitTurnExit(i) \/ Request(i)
       \/ Penalize(i) \/ BackoffStart(i) \/ BackoffEnd(i)
       \/ Reward(i) \/ Finish(i)
  \/ Collect
  \/ FinalFlush
  \/ Report

InitFair ==
  /\ InitBatch(FairCases)
  /\ fn_in = "none"
  /\ fn_out = "none"

\* the threads of a run keep being scheduled; the user need not click again
SpecFair == InitFair /\ [][Next]_vars /\ WF_vars(RunStep)
(***************************************************************************)
(* The job fingerprint and the row of a record, taken alone                *)
(***************************************************************************)
Idle == InitBatch({Case(<<>>, FALSE, {Ok}, {0}, MAX_WORKERS)})

InitJob ==
  /\ Idle
  /\ fn_in \in JobInputs
  /\ fn_out = <<>>

\* the fingerprints and autosave files of the two batches
Fingerprint ==
  /\ fn_out = <<>>
  /\ fn_out' = <<JobOf(fn_in[1]), JobOf(fn_in[2])>>
  /\ UNCHANGED <<batchVars, fn_in>>

NextJob == Fingerprint

SpecJob == InitJob /\ [][NextJob]_vars

InitRow ==
  /\ Idle
  /\ fn_in \in RowInputs
  /\ fn_out = <<>>

\* the row of a record the registry returned for the headquarters
MountRow ==
  /\ fn_out = <<>>
  /\ fn_out' = <<montar_row(TokHQFmt, limpar_cnpj(TokHQFmt), fn_in, "None", Epoch)>>
  /\ UNCHANGED <<batchVars, fn_in>>

NextRow == MountRow

SpecRow == InitRow /\ [][NextRow]_vars

InitId ==
  /\ Idle
  /\ fn_in \in IdInputs
  /\ fn_out = <<>>

\* the validity of one identifier
Validate ==
  /\ fn_out = <<>>
  /\ fn_out' = <<cnpj_is_valid(fn_in)>>
  /\ UNCHANGED <<batchVars, fn_in>>

NextId == Validate

SpecId == InitId /\ [][NextId]_vars

InitHq ==
  /\ Idle
  /\ fn_in \in HqInputs
  /\ fn_out = <<>>

\* the headquarters form of a digit text, and the headquarters form of that
ToMatriz ==
  /\ fn_out = <<>>
  /\ \E once \in {to_matriz_if_filial(fn_in)} :
       fn_out' = <<once, to_matriz_if_filial(once)>>
  /\ UNCHANGED <<batchVars, fn_in>>

NextHq == ToMatriz

SpecHq == InitHq /\ [][NextHq]_vars

InitRegime ==
  /\ Idle
  /\ fn_in \in RegimeInputs
  /\ fn_out = <<>>

\* the regime and its year read from one history
ResolveRegime ==
  /\ fn_out = <<>>
  /\ fn_out' = <<get_regime_tributario(fn_in.regimes_list, fn_in.current_year)>>
  /\ UNCHANGED <<batchVars, fn_in>>

NextRegime == ResolveRegime

SpecRegime == InitRegime /\ [][NextRegime]_vars

(***************************************************************************)
(* The limiter, taken alone                                                *)
(***************************************************************************)
\* penalize() calls explored on one limiter
MaxPenalties == 3

\* wait_turn() passes explored on one limiter
MaxGatePasses == 1

\* the limiter of a run as the handler creates it; the registry can answer
\* anything
InitLimiter ==
  /\ InitBatch({Case(<<>>, FALSE, Outcomes, {0}, MAX_WORKERS)})
  /\ fn_in = "none"
  /\ fn_out = "none"

\* what the limiter's callers leave alone
frame_limiter ==
  UNCHANGED <<cnpjs_input, force_matriz, phase, run, csv_autosave, done_set, to_do_orig,
              task, buffer_rows, all_rows_this_run, df_full, cache, jitters,
              pool_threads, finished, net_keys, net_calls, cache_ops, prev_report,
              fn_in, fn_out>>

\* some worker calls wait_turn(): the whole method runs under the lock
CallWaitTurn ==
  /\ passes < MaxGatePasses
  /\ now' = WaitUntil(limiter, now)
  /\ limiter' = [limiter EXCEPT !.last_request_ts = now']
  /\ passes' = passes + 1
  /\ last_gap' = now' - limiter.last_request_ts
  /\ frame_limiter
  /\ UNCHANGED registry

\* some worker's attempt failed and it calls penalize()
CallPenalize ==
  /\ registry \cap FailOutcomes # {}
  /\ limiter.penalties < MaxPenalties
  /\ limiter' = penalize(limiter)
  /\ frame_limiter
  /\ UNCHANGED <<now, passes, last_gap, registry>>

\* some worker's attempt succeeded and it calls reward()
CallReward ==
  /\ registry \cap OkOutcomes # {}
  /\ limiter' = reward(limiter)
  /\ frame_limiter
  /\ UNCHANGED <<now, passes, last_gap, registry>>

\* environment: from now on every request succeeds
Recover ==
  /\ registry # OkOutcomes
  /\ registry' = OkOutcomes
  /\ frame_limiter
  /\ UNCHANGED <<limiter, now, passes, last_gap>>

NextLimiter ==
  \/ CallWaitTurn
  \/ CallPenalize
  \/ CallReward
  \/ Recover

SpecLimiter == InitLimiter /\ [][NextLimiter]_vars

\* the workers keep making requests
SpecLimiterFair == InitLimiter /\ [][NextLimiter]_vars /\ WF_vars(CallReward)

(***************************************************************************)
(* Properties of a batch run                                               *)
(***************************************************************************)
FirstRunReported == phase = "reported" /\ run = 1

\* the distinct non-empty cleaned identifiers of the input
CleanedIds == {limpar_cnpj(cnpjs_input[i]) : i \in DOMAIN cnpjs_input} \ {<<>>}

\* position of a token in the input (its first occurrence)
FirstPos(tok) ==
  CHOOSE i \in DOMAIN cnpjs_input :
    cnpjs_input[i] = tok /\ \A j \in DOMAIN cnpjs_input : cnpjs_input[j] = tok => i <= j

InInputOrder(rows) ==
  \A i, j \in DOMAIN rows :
    i < j => FirstPos(rows[i].CNPJ_ORIGINAL) < FirstPos(rows[j].CNPJ_ORIGINAL)

C3_ResumeIsFree ==
  (run >= 2 /\ phase # "stopped") =>
    /\ to_do_orig = <<>>
    /\ task = <<>>
    /\ net_calls = 0
    /\ net_keys = {}
    /\ phase = "reported" => df_full = prev_report

\* a second run reported, over a store holding a success row, a failed
\* lookup or an invalid identifier
C3_Witness ==
  /\ run = 2
  /\ phase = "reported"
  /\ \E i \in DOMAIN df_full : df_full[i].Razao_Social = "ACME"
  /\ \E i \in DOMAIN df_full :
       df_full[i].Razao_Social \in {"CNPJ invalido (DV)", "HTTP 429", "Timeout"}

(***************************************************************************)
(* Termination, the limiter, the frame of a task                           *)
(***************************************************************************)
\* every token submitted has its row in the store
AllRowsStored ==
  \A k \in DOMAIN to_do_orig :
    \E n \in DOMAIN csv_autosave : csv_autosave[n].CNPJ_ORIGINAL = to_do_orig[k]

\* task i is waiting for the limiter lock
AtLock(i) ==
  i \in DOMAIN task /\ task[i].pc \in {"wait_turn", "penalize", "reward"}

\* C4: with the pool threads and the dispatcher scheduled fairly, a running
\* batch always ends with a row stored for every submitted token, also when
\* every registry request fails, and no task stays at the limiter lock forever.
C4_BatchCompletes ==
  /\ (phase = "running") ~> (phase = "reported" /\ AllRowsStored)
  /\ \A i \in 1..MAX_WORKERS : AtLock(i) ~> ~AtLock(i)

\* a first run reported in which every request failed and every task used
\* all its attempts
C4_Witness ==
  /\ FirstRunReported
  /\ net_calls = 2 * TOTAL_RETRIES
  /\ Len(df_full) = 3
  /\ \A n \in DOMAIN df_full :
       df_full[n].Razao_Social \in {"Timeout", "CNPJ invalido (DV)"}

\* C5: a pass through wait_turn stamps a time at least the limiter's current
\* minimum interval after the time the pass before it stamped, whichever
\* tasks made the two passes.
C5_PassesSpaced ==
  [][(passes' = passes + 1 /\ passes >= 1) =>
       /\ limiter'.last_request_ts - limiter.last_request_ts >= limiter'.min_interval
       /\ limiter'.min_interval = limiter.min_interval]_vars

\* two tasks have passed the gate, the later pass after a penalty had doubled
\* the interval, exactly that interval after the earlier one
C5_Witness ==
  /\ passes >= 2
  /\ limiter.min_interval = START_INTERVAL * ADAPT_FAIL_BACKOFF
  /\ last_gap = limiter.min_interval
  /\ Cardinality({i \in DOMAIN task : task[i].attempt >= 1 \/ task[i].pc = "done"}) >= 2

Invalid(i) == ~cnpj_is_valid(limpar_cnpj(to_do_orig[i]))

\* C6: the task of an identifier that does not validate returns the
\* placeholder row in one step that leaves the limiter, the cache, the count
\* of cache calls, the count of passes and the registry requests unchanged,
\* and it is never in wait_turn, in a request or in a sleep.
C6_InvalidTouchesNothing ==
  [][\A i \in DOMAIN task :
       Invalid(i) =>
         /\ task[i].pc \in {"queued", "start", "done", "collected"}
         /\ (task[i].pc = "start" /\ task'[i] # task[i]) =>
              /\ task'[i].pc = "done"
              /\ task'[i].row.Razao_Social = "CNPJ invalido (DV)"
              /\ task'[i].row.CNPJ_ORIGINAL = to_do_orig[i]
              /\ limiter' = limiter
              /\ cache' = cache
              /\ cache_ops' = cache_ops
              /\ passes' = passes
              /\ net_calls' = net_calls
              /\ net_keys' = net_keys]_vars

\* an invalid identifier has its placeholder row while another task of the
\* run has used the cache and the limiter
C6_Witness ==
  /\ \E i \in DOMAIN task :
       /\ Invalid(i)
       /\ task[i].pc = "done"
       /\ task[i].row.Razao_Social = "CNPJ invalido (DV)"
  /\ cache_ops >= 1
  /\ passes >= 1

(***************************************************************************)
(* Headquarters lookup                                                     *)
(***************************************************************************)
\* k is the headquarters identifier of the root of identifier c
HeadquartersOf(k, c) ==
  /\ Len(k) = 14
  /\ SubSeq(k, 1, 8) = SubSeq(c, 1, 8)
  /\ SubSeq(k, 9, 12) = <<"0", "0", "0", "1">>
  /\ cnpj_is_valid(k)

\* every registry request and cache key is the query key of a task, which is
\* the headquarters identifier of the task's root, and every row a task
\* returned carries the task's own text and digits
OwnIdsHeadquartersKeys ==
  /\ \A k \in net_keys \cup DOMAIN cache :
       \E i \in DOMAIN task : task[i].query_key = k
  /\ \A i \in DOMAIN task :
       /\ task[i].pc \notin {"queued", "start"} =>
            IF Invalid(i) THEN task[i].query_key = <<>>
            ELSE HeadquartersOf(task[i].query_key, Cleaned(i))
       /\ task[i].pc = "done" =>
            /\ task[i].row.CNPJ_ORIGINAL = Original(i)
            /\ task[i].row.CNPJ_LIMPO = Cleaned(i)
  /\ \A n \in DOMAIN all_rows_this_run :
       limpar_cnpj(all_rows_this_run[n].CNPJ_ORIGINAL) = all_rows_this_run[n].CNPJ_LIMPO

\* C7: with the headquarters mode on, every registry request and cache key
\* of a valid identifier is the headquarters identifier of its root, every
\* row returned carries the task's own original text and cleaned digits, on
\* a miss and on a hit, and a hit leaves the cache as it was, the row
\* returned taking its other columns from the cached row.
C7_HeadquartersLookup ==
  [][force_matriz =>
       /\ OwnIdsHeadquartersKeys'
       /\ \A i \in DOMAIN task :
            (task[i].pc = "start" /\ ~Invalid(i) /\ task'[i].pc = "done") =>
              /\ cache' = cache
              /\ task'[i].query_key \in DOMAIN cache
              /\ task'[i].row.Razao_Social = cache[task'[i].query_key].Razao_Social
              /\ task'[i].row.CNPJ_LIMPO = Cleaned(i)]_vars

\* two branches of one root have their rows, for one registry request made
\* for the headquarters, which is neither of them
C7_Witness ==
  /\ force_matriz
  /\ net_calls = 1
  /\ Len(all_rows_this_run) = 2
  /\ all_rows_this_run[1].CNPJ_LIMPO # all_rows_this_run[2].CNPJ_LIMPO
  /\ \A n \in DOMAIN all_rows_this_run :
       /\ all_rows_this_run[n].Razao_Social = "ACME"
       /\ all_rows_this_run[n].CNPJ_LIMPO \notin net_keys

(***************************************************************************)
(* Autosave by blocks                                                      *)
(***************************************************************************)
\* the last n rows of the store
LastRows(n) == SubSeq(csv_autosave, Len(csv_autosave) - n + 1, Len(csv_autosave))

\* C8: after every collection step fewer than AUTOSAVE_BLOCK collected rows
\* are not yet in the store, the store ends with the rows collected and
\* flushed so far, each once and in collection order, and after the final
\* flush it holds every collected row.
C8_AutosaveBlocks ==
  /\ phase = "running" =>
       /\ Len(buffer_rows) < AUTOSAVE_BLOCK
       /\ Len(buffer_rows) <= Len(all_rows_this_run)
       /\ LastRows(Len(all_rows_this_run) - Len(buffer_rows)) \o buffer_rows
            = all_rows_this_run
  /\ phase \in {"consolidate", "reported"} =>
       LastRows(Len(all_rows_this_run)) = all_rows_this_run
  /\ \A m, n \in DOMAIN csv_autosave :
       csv_autosave[m].CNPJ_ORIGINAL = csv_autosave[n].CNPJ_ORIGINAL => m = n
  /\ \A i \in DOMAIN task :
       task[i].pc = "collected" <=>
         \E n \in DOMAIN all_rows_this_run :
           all_rows_this_run[n].CNPJ_ORIGINAL = Original(i)

\* a block has been flushed and the next rows wait in the buffer
C8_Witness ==
  /\ phase = "running"
  /\ Len(csv_autosave) = AUTOSAVE_BLOCK
  /\ Len(buffer_rows) >= 1
  /\ Len(all_rows_this_run) = AUTOSAVE_BLOCK + Len(buffer_rows)

(***************************************************************************)
(* The job fingerprint                                                     *)
(***************************************************************************)
\* the set of identifiers a batch cleans to
CleanedSet(raw) == {limpar_cnpj(raw[i]) : i \in DOMAIN raw} \ {<<>>}

\* the places of a batch that hold a token with a digit, not seen before
KeptPlaces(raw) ==
  {i \in DOMAIN raw :
     /\ \E j \in DOMAIN raw[i] : raw[i][j] \in Digits
     /\ \A j \in 1..(i - 1) : raw[j] # raw[i]}

\* the identifiers of a batch in input order, one for each distinct raw
\* token with a digit
CleanedList(raw) ==
  LET place(n) == CHOOSE i \in KeptPlaces(raw) :
                    Cardinality({j \in KeptPlaces(raw) : j <= i}) = n
  IN  [n \in 1..Cardinality(KeptPlaces(raw)) |-> limpar_cnpj(raw[place(n)])]

Fingerprinted == fn_out # <<>> /\ ~fn_out[1].stopped /\ ~fn_out[2].stopped

\* C9, as stated: two batches that clean to the same set of identifiers get
\* the same fingerprint and the same autosave file, whatever the order of
\* their tokens and the spellings they repeat.
C9_SameSetSameJob ==
  (Fingerprinted /\ CleanedSet(fn_in[1]) = CleanedSet(fn_in[2])) =>
    /\ fn_out[1].job_id = fn_out[2].job_id
    /\ fn_out[1].csv_autosave = fn_out[2].csv_autosave

\* C9, amended: two batches get the same fingerprint and autosave file
\* exactly when their lists of cleaned identifiers, in input order with one
\* entry for each distinct raw token that has a digit, are equal.
C9_SameListSameJob ==
  /\ fn_out # <<>> =>
       \A k \in {1, 2} : fn_out[k].stopped <=> CleanedList(fn_in[k]) = <<>>
  /\ Fingerprinted =>
       /\ fn_out[1].job_id = fn_out[2].job_id
            <=> CleanedList(fn_in[1]) = CleanedList(fn_in[2])
       /\ fn_out[1].csv_autosave = fn_out[2].csv_autosave
            <=> fn_out[1].job_id = fn_out[2].job_id

\* two batches of the same identifiers in another order, or with a spelling
\* repeated, have different fingerprints; and two batches of different raw
\* tokens can share one
C9_Witness ==
  /\ Fingerprinted
  /\ CleanedSet(fn_in[1]) = CleanedSet(fn_in[2])
  /\ Len(fn_in[1]) = 2
  /\ fn_out[1].job_id # fn_out[2].job_id

(***************************************************************************)
(* The regime columns of a row                                             *)
(***************************************************************************)
\* the record is a successful lookup
Success(data) == data.kind = "dict" /\ data.cnpj

\* the label the two special-regime flags would give
EffectiveRegime(data) ==
  IF data.opcao_pelo_mei = "true" THEN "MEI"
  ELSE IF data.opcao_pelo_simples = "true" THEN "Simples"
  ELSE "NORMAL"

\* the text columns of a row
TextCols(row) ==
  {row.Razao_Social, row.Regime_Tributario, row.Simples_Nacional, row.MEI}

HistoryLabels(regimes_list) ==
  {regimes_list.items[i].forma : i \in DOMAIN regimes_list.items} \cup {"N/A"}

Resolved == fn_out # <<>>

\* the entries of a history that carry year y
EntriesOf(items, y) == {i \in DOMAIN items : items[i].ano = y}

\* the entries of a history that carry a year
Dated(items) == {i \in DOMAIN items : items[i].ano # AnoNone}

\* the six years ending with year
Window(year) == (year - 5)..year

\* C11, as stated: the result is the label and year of the greatest year of
\* the six-year window that some entry of the history carries with a
\* non-empty label; without such a year it is an entry of the greatest year
\* of the whole history; an empty or malformed history gives N/A twice.
C11_GreatestYearInList ==
  Resolved =>
    LET items == fn_in.regimes_list.items
        out == fn_out[1]
        labelled == {y \in Window(fn_in.current_year) :
                       \E i \in EntriesOf(items, y) : items[i].forma # ""}
    IN  IF labelled # {}
        THEN \E y \in labelled :
               /\ \A g \in labelled : g <= y
               /\ out[2] = IntStr(y)
               /\ \E i \in EntriesOf(items, y) : items[i].forma # "" /\ out[1] = items[i].forma
        ELSE IF Dated(items) # {}
             THEN \E i \in Dated(items) :
                    /\ \A j \in Dated(items) : items[j].ano <= items[i].ano
                    /\ out = <<items[i].forma, IntStr(items[i].ano)>>
             ELSE out = <<"N/A", NA>>

\* the entry of year y that counts: the last one of the list
LastOf(items, y) == CHOOSE i \in EntriesOf(items, y) : \A j \in EntriesOf(items, y) : j <= i

\* C11, amended: among the entries of one year the last of the list counts;
\* the result is the greatest year of the six-year window whose counting
\* entry has a non-empty label, with that label; without such a year it is
\* the first entry of the list among those of the greatest year of the whole
\* history, whatever its label; a history that is no list, is empty or has no
\* entry with a year gives N/A twice.
C11_GreatestYearInMap ==
  Resolved =>
    LET items == fn_in.regimes_list.items
        out == fn_out[1]
        labelled == {y \in Window(fn_in.current_year) :
                       EntriesOf(items, y) # {} /\ items[LastOf(items, y)].forma # ""}
    IN  /\ labelled # {} =>
             \E y \in labelled :
               /\ \A g \in labelled : g <= y
               /\ out = <<items[LastOf(items, y)].forma, IntStr(y)>>
        /\ (labelled = {} /\ Dated(items) # {}) =>
             \E i \in Dated(items) :
               /\ \A j \in Dated(items) : items[j].ano <= items[i].ano
               /\ \A j \in Dated(items) : j < i => items[j].ano < items[i].ano
               /\ out = <<items[i].forma, IntStr(items[i].ano)>>
        /\ (labelled = {} /\ Dated(items) = {}) => out = <<"N/A", NA>>

\* the history of the example: an entry before the window and one inside it
C11_Witness ==
  /\ Resolved
  /\ fn_in.current_year = CurrentYear
  /\ fn_in.regimes_list.items = <<[ano |-> CurrentYear - 6, forma |-> "A"],
                                  [ano |-> CurrentYear - 1, forma |-> "B"]>>
  /\ fn_out[1] = <<"B", IntStr(CurrentYear - 1)>>

(***************************************************************************)
(* The check digits of an identifier                                       *)
(***************************************************************************)
\* the weight of the k-th digit from the right in a weighted sum: 2 to 9, again
\* and again
WeightFromRight(k) == 2 + ((k - 1) % 8)

RECURSIVE Mod11Sum(_)
\* the weighted sum of a digit text
Mod11Sum(d) ==
  IF d = <<>> THEN 0
  ELSE Mod11Sum(Tail(d)) + DigitVals[Head(d)] * WeightFromRight(Len(d))

\* the check digit that follows a digit text
CheckDigit(d) ==
  LET r == Mod11Sum(d) % 11
  IN  IF r < 2 THEN 0 ELSE 11 - r

\* fn_in with the digit at place k replaced by x
Replaced(k, x) == [fn_in EXCEPT ![k] = x]

\* C12: an identifier is valid exactly when it has 14 digits that are not all
\* the same and its 13th and 14th digits are the check digits of the 12 and
\* of the 13 digits before them, each 0 when the weighted sum leaves a
\* remainder under 2 modulo 11 and 11 minus the remainder otherwise; so a
\* valid identifier with either check digit replaced by another digit is
\* invalid, and an identifier of one repeated digit is invalid whatever its
\* check digits.
C12_ValidIffCheckDigits ==
  Resolved =>
    /\ fn_out[1] <=> (/\ Len(fn_in) = 14
                       /\ \E k \in 2..14 : fn_in[k] # fn_in[1]
                       /\ DigitVals[fn_in[13]] = CheckDigit(SubSeq(fn_in, 1, 12))
                       /\ DigitVals[fn_in[14]] = CheckDigit(SubSeq(fn_in, 1, 13)))
    /\ fn_out[1] => \A k \in {13, 14} : \A x \in Digits \ {fn_in[k]} :
                      ~cnpj_is_valid(Replaced(k, x))
    /\ (Len(fn_in) = 14 /\ \A k \in 2..14 : fn_in[k] = fn_in[1]) => ~fn_out[1]

\* the headquarters identifier, valid, with its last check digit replaced
C12_Witness ==
  /\ Resolved
  /\ fn_out[1] = FALSE
  /\ SubSeq(fn_in, 1, 13) = SubSeq(TokHQ, 1, 13)
  /\ Len(fn_in) = 14
  /\ fn_in[14] # TokHQ[14]
  /\ cnpj_is_valid(TokHQ)

(***************************************************************************)
(* The interval of the limiter                                             *)
(***************************************************************************)
\* C13: whatever the order of the wait_turn, penalize and reward calls, the
\* minimum interval of the limiter is at least the floor (0.75 s) and at most
\* the ceiling (5 s).
C13_IntervalWithinBounds ==
  /\ MIN_INTERVAL_FLOOR <= limiter.min_interval
  /\ limiter.min_interval <= MIN_INTERVAL_CEIL

\* the interval is at the ceiling after a penalize that doubling would have
\* taken beyond it, a wait_turn pass and successes in between
C13_Witness ==
  /\ limiter.min_interval = MIN_INTERVAL_CEIL
  /\ limiter.penalties = 3
  /\ limiter.streak > 0
  /\ passes = 1

(***************************************************************************)
(* The calls of a fetch                                                    *)
(***************************************************************************)
\* the request of a task ended in a retryable status, a timeout or a
\* connection error
Transient(r) == r.type \in {"retryable", "timeout", "connection"}

\* the tasks of the run go on: the step is not a new click
SameRun == run' = run /\ DOMAIN task' = DOMAIN task

RECURSIVE SumOver(_, _)
\* the sum of f over the set S of task numbers
SumOver(f, S) ==
  IF S = {} THEN 0
  ELSE LET i == CHOOSE j \in S : TRUE IN f[i] + SumOver(f, S \ {i})

\* the penalize() calls of the tasks of the run
TaskPenalties == SumOver([i \in DOMAIN task |-> task[i].log.penalize], DOMAIN task)

\* C14: every attempt that ends in a retryable status, a timeout or a
\* connection failure calls penalize() exactly once, and no other attempt
\* calls it; a penalize() sets, in one step, the interval to the smaller of
\* twice its value and the ceiling and the success counter to 0, whatever
\* the counter held.
C14_PenalizeOncePerFailure ==
  /\ [](\A i \in DOMAIN task :
          /\ task[i].log.penalize =
               task[i].log.transient - (IF task[i].pc = "penalize" THEN 1 ELSE 0)
          /\ task[i].pc = "penalize" => Transient(task[i].log.last))
  /\ [](limiter.penalties = TaskPenalties)
  /\ [][SameRun =>
          \A i \in DOMAIN task :
            task'[i].log.penalize # task[i].log.penalize =>
              /\ task'[i].log.penalize = task[i].log.penalize + 1
              /\ limiter'.min_interval =
                   Min(limiter.min_interval * 2, MIN_INTERVAL_CEIL)
              /\ limiter'.successes_since_last_adjust = 0
              /\ limiter'.streak = 0]_vars

\* a success of one task had been counted when another task's attempt failed:
\* the counter is back at 0
C14_Witness ==
  /\ \E i \in DOMAIN task : task[i].log.reward = 1
  /\ \E j \in DOMAIN task : task[j].log.penalize = 1 /\ task[j].pc = "backoff"
  /\ limiter.successes_since_last_adjust = 0
  /\ limiter.min_interval = 2 * START_INTERVAL

(***************************************************************************)
(* The limiter when every request succeeds                                 *)
(***************************************************************************)
\* every request succeeds from now on
AllSuccess == registry \subseteq OkOutcomes

AtFloor == limiter.min_interval = MIN_INTERVAL_FLOOR

\* C15: between operations the success counter is in 0..17; while every
\* request succeeds the interval never grows and changes only at the reward
\* that takes the counter to the window of 18, after 18 successes in a row:
\* it becomes the greater of 0.85 times its value and the floor, and the
\* counter goes back to 0; and from any state of the limiter the interval
\* then comes to the floor and stays there.
C15_AllSuccessConverges ==
  /\ [](limiter.successes_since_last_adjust \in 0..(ADAPT_SUCC_WINDOW - 1))
  /\ [][AllSuccess =>
          /\ limiter'.min_interval <= limiter.min_interval
          /\ limiter'.min_interval # limiter.min_interval =>
               /\ limiter.successes_since_last_adjust = ADAPT_SUCC_WINDOW - 1
               /\ limiter'.successes_since_last_adjust = 0
               /\ limiter'.streak = ADAPT_SUCC_WINDOW
               /\ limiter'.min_interval =
                    Max((limiter.min_interval * 85) \div 100, MIN_INTERVAL_FLOOR)
          /\ (/\ limiter.successes_since_last_adjust = ADAPT_SUCC_WINDOW - 1
              /\ limiter'.successes_since_last_adjust = 0) =>
               limiter'.min_interval =
                 Max((limiter.min_interval * 85) \div 100, MIN_INTERVAL_FLOOR)]_vars
  /\ [](AllSuccess => <>[]AtFloor)

\* after three penalties the interval has come down to the floor by successes alone
C15_Witness ==
  /\ AllSuccess
  /\ AtFloor
  /\ limiter.penalties = 3
  /\ limiter.streak = ADAPT_SUCC_WINDOW

\* C16: every request of a task, the first and every retry, comes after one
\* pass of that task through wait_turn() made since its previous request and
\* the sleep that followed it ended; no request is sent without that pass.
C16_GateBeforeEveryAttempt ==
  /\ [](\A i \in DOMAIN task :
          task[i].log.wait_turn =
            task[i].log.get + (IF task[i].pc = "request" THEN 1 ELSE 0))
  /\ [][SameRun =>
          /\ \A i \in DOMAIN task :
               /\ task'[i].log.get # task[i].log.get =>
                    /\ task'[i].log.get = task[i].log.get + 1
                    /\ task[i].log.wait_turn = task[i].log.get + 1
                    /\ task'[i].log.wait_turn = task[i].log.wait_turn
               /\ task'[i].log.wait_turn # task[i].log.wait_turn =>
                    /\ task'[i].log.wait_turn = task[i].log.wait_turn + 1
                    /\ task[i].log.sleep = task[i].log.get
                    /\ task[i].pc # "sleeping"
                    /\ now' >= task[i].wake
                    /\ passes' = passes + 1
          /\ net_calls' # net_calls =>
               \E i \in DOMAIN task : task'[i].log.get = task[i].log.get + 1]_vars

\* a task has passed the gate for the third time and is about to send its
\* third request
C16_Witness ==
  \E i \in DOMAIN task :
    /\ task[i].pc = "request"
    /\ task[i].attempt = TOTAL_RETRIES
    /\ task[i].log.get = 2
    /\ task[i].log.sleep = 2
    /\ task[i].log.wait_turn = 3

\* the task has returned its row, which the handler has not yet taken
Returned(i) == task[i].pc = "done"

\* the descriptions of an attempt that failed and could be retried
TransientErrors == {"Timeout", "ConnectionError"} \cup {HttpErr(s) : s \in RETRYABLE_STATUS}

\* the row is a placeholder row that carries error text err
ErrorRow(row, err) ==
  /\ row.Razao_Social = err
  /\ row.Regime_Tributario = "N/A"
  /\ row.Ano_Regime_Tributario = NA
  /\ row.Simples_Nacional = "N/A"
  /\ row.MEI = "N/A"

\* C17: a fetch sends at most 3 requests; once the third has ended in a
\* retryable status, a timeout or a connection failure the task sends no
\* further request and passes the gate no more, and the row it returns is an
\* error row.
C17_AtMostThreeAttempts ==
  /\ [](\A i \in DOMAIN task :
          /\ task[i].log.get <= TOTAL_RETRIES
          /\ task[i].attempt <= TOTAL_RETRIES
          /\ (Returned(i) /\ task[i].log.transient = TOTAL_RETRIES) =>
               \E err \in TransientErrors : ErrorRow(task[i].row, err))
  /\ [][SameRun =>
          \A i \in DOMAIN task :
            task[i].log.transient = TOTAL_RETRIES =>
              /\ task'[i].log.get = task[i].log.get
              /\ task'[i].log.wait_turn = task[i].log.wait_turn
              /\ task'[i].pc \notin {"wait_turn", "in_gate", "request"}]_vars

\* three requests of a task timed out and it has returned its error row
C17_Witness ==
  \E i \in DOMAIN task :
    /\ Returned(i)
    /\ task[i].log.get = TOTAL_RETRIES
    /\ task[i].log.transient = TOTAL_RETRIES
    /\ ErrorRow(task[i].row, "Timeout")

\* the request ended in an HTTP error status that is not retryable, or in a
\* body that is not JSON
Terminal(r) == r.type \in {"http_error", "bad_json"}

\* the description returned for such a request
TerminalError(r) ==
  IF r.type = "http_error" THEN "HTTP 404 - not found" ELSE "Erro Inesperado"

\* C18: a request that ends in a non-retryable HTTP error status or in a
\* malformed body ends the fetch at once with no record and a description of
\* the error: the task sends no further request, does not sleep, calls
\* neither penalize() nor reward(), and its steps leave the interval and the
\* success counter of the limiter as they were; the row it returns is an
\* error row with that description.
C18_TerminalErrorReturnsAtOnce ==
  /\ [](\A i \in DOMAIN task :
          Terminal(task[i].log.last) =>
            /\ task[i].pc \in {"finish", "done", "collected"}
            /\ task[i].log.wait_turn = task[i].log.get
            /\ task[i].log.penalize = task[i].log.get - 1
            /\ task[i].log.sleep = task[i].log.get - 1
            /\ task[i].log.reward = 0
            /\ task[i].pc = "finish" =>
                 /\ task[i].last_err = TerminalError(task[i].log.last)
                 /\ task[i].resp.data = NoData
            /\ Returned(i) => ErrorRow(task[i].row, TerminalError(task[i].log.last)))
  /\ [][SameRun =>
          \A i \in DOMAIN task :
            (Terminal(task'[i].log.last) /\ task'[i] # task[i]) =>
              /\ limiter'.min_interval = limiter.min_interval
              /\ limiter'.successes_since_last_adjust =
                   limiter.successes_since_last_adjust
              /\ limiter'.penalties = limiter.penalties
              /\ now' = now
              /\ Terminal(task[i].log.last) => task'[i].log = task[i].log]_vars

\* the second request of a task ended in an HTTP error that is not retryable:
\* one penalize, for the first request, and the error row of the second
C18_Witness ==
  \E i \in DOMAIN task :
    /\ Returned(i)
    /\ task[i].log.last.type = "http_error"
    /\ task[i].log.get = 2
    /\ task[i].log.penalize = 1
    /\ task[i].log.sleep = 1
    /\ ErrorRow(task[i].row, "HTTP 404 - not found")

\* C19, as stated: reward() is called only for a lookup whose response is a
\* record with the cnpj field and whose row is an enrichment row; a lookup
\* that ends in a placeholder row, also one answered with an HTTP success
\* without the cnpj field, never adds to the success counter.
C19_RewardOnlyForEnrichedRow ==
  \A i \in DOMAIN task :
    task[i].log.reward > 0 =>
      /\ task[i].log.last.type = "ok"
      /\ Success(task[i].log.last.data)
      /\ Returned(i) => /\ task[i].row.Razao_Social = task[i].log.last.data.razao_social
                        /\ ~ErrorRow(task[i].row, "Falha desconhecida")

\* a lookup answered with an HTTP success without the cnpj field has called
\* reward(), the success counter stands at 1, and its row is a placeholder
C19_Witness ==
  \E i \in DOMAIN task :
    /\ Returned(i)
    /\ task[i].log.last.type = "ok"
    /\ ~Success(task[i].log.last.data)
    /\ task[i].log.reward = 1
    /\ limiter.successes_since_last_adjust = 1
    /\ ErrorRow(task[i].row, "Falha desconhecida")

\* the description of a request that ended in a retryable status, a timeout
\* or a connection failure
TransientError(r) ==
  CASE r.type = "retryable" -> HttpErr(r.status)
    [] r.type = "timeout" -> "Timeout"
    [] r.type = "connection" -> "ConnectionError"

\* C20: when the three requests of a fetch have all ended in a retryable
\* status, a timeout or a connection failure, in any mix, the fetch returns
\* no record and the description of what the third request ended in, and the
\* row of the task is the error row with that description.
C20_LastErrorReturned ==
  \A i \in DOMAIN task :
    (task[i].log.transient = TOTAL_RETRIES /\ task[i].pc \in {"finish", "done"}) =>
      /\ task[i].log.get = TOTAL_RETRIES
      /\ Transient(task[i].log.last)
      /\ task[i].pc = "finish" =>
           /\ task[i].last_err = TransientError(task[i].log.last)
           /\ task[i].last_err \notin {"None", "Falha desconhecida"}
           /\ task[i].resp.data = NoData
      /\ Returned(i) => ErrorRow(task[i].row, TransientError(task[i].log.last))

\* the first request timed out, the third was answered 503: the row says
\* "HTTP 503"
C20_Witness ==
  \E i \in DOMAIN task :
    /\ Returned(i)
    /\ task[i].log.transient = TOTAL_RETRIES
    /\ task[i].log.first.type = "timeout"
    /\ task[i].log.last.type = "retryable"
    /\ task[i].log.last.status = 503
    /\ ErrorRow(task[i].row, "HTTP 503")

(***************************************************************************)
(* The cache under concurrent tasks                                        *)
(***************************************************************************)
\* the error text a fetch returns with what its last request ended in
ReturnedError(r) ==
  IF Transient(r) THEN TransientError(r)
  ELSE IF Terminal(r) THEN TerminalError(r)
  ELSE "None"

\* row is the row task i built from its finished fetch, whatever the time
RowOfFetch(row, i) ==
  LET r == task[i].log.last
      data == IF r.type = "ok" THEN r.data ELSE NoData
  IN  row = montar_row(Original(i), Cleaned(i), data, ReturnedError(r), row.TIMESTAMP * 1000)

\* C21: a task sends registry requests only if its own cache_get for its
\* query key missed, and its cache_get misses only if no row is stored for
\* that key at that moment; rows stay in the cache, so a task that reads
\* after a store for its key sends none; every row in the cache is the whole
\* row a task built from its finished fetch of that same key, success or
\* failure. Tasks that read one key before its first store each make one
\* fetch.
C21_CacheMissBeforeFetch ==
  /\ [](\A i \in DOMAIN task :
          /\ task[i].log.get > 0 => task[i].log.cache_get = "miss"
          /\ task[i].log.cache_get = "hit" =>
               /\ task[i].log.get = 0
               /\ task[i].log.wait_turn = 0
               /\ task[i].pc \in {"done", "collected"})
  /\ [](\A k \in DOMAIN cache :
          \E i \in DOMAIN task :
            /\ task[i].query_key = k
            /\ task[i].log.cache_get = "miss"
            /\ task[i].log.get \in 1..TOTAL_RETRIES
            /\ task[i].pc \in {"done", "collected"}
            /\ RowOfFetch(cache[k], i))
  /\ [][SameRun =>
          /\ DOMAIN cache \subseteq DOMAIN cache'
          /\ \A i \in DOMAIN task :
               task'[i].log.cache_get # task[i].log.cache_get =>
                 /\ task[i].log.cache_get = "none"
                 /\ task'[i].query_key = QueryKey(Cleaned(i), force_matriz)
                 /\ task'[i].log.cache_get = "hit" <=> task'[i].query_key \in DOMAIN cache
                 /\ cache' = cache]_vars

\* two tasks of one query key both missed, both fetched, and the cache
\* holds the row of one of them
C21_Witness ==
  \E i, j \in DOMAIN task :
    /\ i < j
    /\ task[i].query_key = task[j].query_key
    /\ task[i].log.get > 0 /\ task[j].log.get > 0
    /\ task[i].pc \in {"done", "collected"} /\ task[j].pc \in {"done", "collected"}
    /\ task[i].query_key \in DOMAIN cache
    /\ Cleaned(i) # Cleaned(j)

(***************************************************************************)
(* The headquarters form                                                   *)
(***************************************************************************)
\* the branch segment of a 14-digit text
BranchOf(d) == SubSeq(d, 9, 12)

HeadquartersMark == <<"0", "0", "0", "1">>

\* C22: the headquarters form of the headquarters form of a digit text is
\* the headquarters form itself; a text that is not 14 digits long and a
\* text whose branch segment is already 0001 are returned as they are,
\* whatever their check digits; any other text gets the segment 0001 after
\* its first eight digits and the two check digits of those twelve.
C22_HeadquartersFormIdempotent ==
  Resolved =>
    /\ fn_out[2] = fn_out[1]
    /\ Len(fn_in) # 14 => fn_out[1] = fn_in
    /\ (Len(fn_in) = 14 /\ BranchOf(fn_in) = HeadquartersMark) => fn_out[1] = fn_in
    /\ (Len(fn_in) = 14 /\ BranchOf(fn_in) # HeadquartersMark) =>
         /\ Len(fn_out[1]) = 14
         /\ SubSeq(fn_out[1], 1, 8) = SubSeq(fn_in, 1, 8)
         /\ BranchOf(fn_out[1]) = HeadquartersMark
         /\ DigitVals[fn_out[1][13]] = CheckDigit(SubSeq(fn_out[1], 1, 12))
         /\ DigitVals[fn_out[1][14]] = CheckDigit(SubSeq(fn_out[1], 1, 13))

\* a branch turned into its headquarters, which stays as it is, and is not
\* the branch
C22_Witness ==
  /\ Resolved
  /\ fn_in = TokBr2
  /\ fn_out[1] = TokHQ
  /\ fn_out[2] = TokHQ

(***************************************************************************)
(* The store over crashes and resumptions                                  *)
(***************************************************************************)
\* the cleaned identifiers of the rows of the store
Stored == {csv_autosave[n].CNPJ_LIMPO : n \in DOMAIN csv_autosave}

\* C23: over any sequence of runs of one batch, crashed between two steps of
\* the handler and entered again or not, the store holds at most one row for
\* a cleaned identifier: a run submits no identifier that has a row in the
\* store, submits an identifier once, and appends the row of a task once.
C23_OneRowPerIdentifier ==
  /\ [](\A m, n \in DOMAIN csv_autosave :
          csv_autosave[m].CNPJ_LIMPO = csv_autosave[n].CNPJ_LIMPO => m = n)
  /\ [](\A i, j \in DOMAIN to_do_orig : Cleaned(i) = Cleaned(j) => i = j)
  /\ [](\A i \in DOMAIN task : Cleaned(i) \in Stored => task[i].pc = "collected")
  /\ [][run' # run => \A i \in DOMAIN to_do_orig' :
                        limpar_cnpj(to_do_orig'[i]) \notin Stored]_vars

\* the second run, entered after a crash that came after the autosave of
\* the first block, has appended the rows that were missing
C23_Witness ==
  /\ run = 2
  /\ phase = "reported"
  /\ Len(csv_autosave) = AUTOSAVE_BLOCK + ExtraRows
  /\ Len(to_do_orig) = ExtraRows

====
